---------------------------- MODULE Spec2Model ----------------------------
(***************************************************************************)
(* Verification model of the tacosChilis menu page.                        *)
(*                                                                         *)
(*   - processData (src/main.js, second IIFE; src/unnamed/part_000):       *)
(*     the menu model builder, a pure function of the parsed rows.         *)
(*   - the service worker (src/sw.js): fetch interception, the             *)
(*     stale-while-revalidate handler for the spreadsheet export and the   *)
(*     cache-first handler for images and static assets.                   *)
(*   - the page (src/main.js): the two script blocks that load, build and  *)
(*     render the menu into the same container.                            *)
(***************************************************************************)
EXTENDS Integers, Sequences, FiniteSets, TLC

VARIABLES
    pdData,      \* processData: the argument `data` (rows as Papa.parse yields them)
    pdOut,       \* processData: outcome of the call (pending / returned / threw)
    cacheStore,  \* worker: CacheStorage, cache name -> request URL -> stored response
    handlers,    \* worker: the fetch events seen so far and the state of their handlers
    clients,     \* worker: the browser's pages: closed, uncontrolled or controlled
    cacheNames,  \* worker: the names CacheStorage holds (caches.keys())
    worker,      \* worker: its lifecycle state and the progress of install / activate
    prefetches,  \* worker: the CACHE_CSV messages received and the state of their work
    pgSheet,     \* page: the rows the spreadsheet export holds
    pgStarted,   \* page: DOMContentLoaded has fired
    pgLoads,     \* page: the loadMenuData calls so far (which script, pending or done)
    pgMenu,      \* page: what menuContainer.innerHTML shows
    pgNotified,  \* page: the CSV_UPDATED messages dispatched at the page so far
    pgRibbon     \* page: the #specialsRibbon element and the interval timers on it

pdVars == <<pdData, pdOut>>
lcVars == <<cacheNames, worker, prefetches>>
swVars == <<cacheStore, handlers, clients, cacheNames, worker, prefetches>>
pgVars == <<pgSheet, pgStarted, pgLoads, pgMenu, pgNotified, pgRibbon>>

(***************************************************************************)
(* Bounds                                                                  *)
(***************************************************************************)
MaxRows == 2
\* fetch events per run
MaxRequests == 2
\* rows of the export the page loads
MaxSheetRows == 1
\* clicks on refresh / retry and presses of R per run
MaxReloads == 1
\* announcements in the rows of one load
MaxAnnouncements == 3

\* interval timers per run
MaxTimers == 3

\* messages per run (CACHE_CSV to the worker, CSV_UPDATED to the page)
MaxMessages == 1

(***************************************************************************)
(* JavaScript values                                                       *)
(***************************************************************************)
\* the value of a property that does not exist
undefined == "<undefined>"

\* !v for the values a row can hold (strings and undefined)
Falsy(v) == v = undefined \/ v = ""

\* String.prototype.toLowerCase on the strings of the model's alphabet
toLowerCase(s) ==
    CASE s = "Category"     -> "category"
      [] s = "Item"         -> "item"
      [] s = "GroupingName" -> "groupingname"
      [] s = "Description"  -> "description"
      [] s = "GroupImage"   -> "groupimage"
      [] s = "CATEGORY"     -> "category"
      [] s = "ITEM"         -> "item"
      [] s = "GROUPINGNAME" -> "groupingname"
      [] s = "DESCRIPTION"  -> "description"
      [] s = "GROUPIMAGE"   -> "groupimage"
      [] s = "Tacos"        -> "tacos"
      [] s = "Menu"         -> "menu"
      [] s = "Announcement" -> "announcement"
      [] s = "ANNOUNCEMENT" -> "announcement"
      [] s = "Asada"        -> "asada"
      [] s = "Street Tacos" -> "street tacos"
      [] OTHER              -> s

\* property names every object literal inherits from Object.prototype
ObjectPrototypeKeys ==
    {"constructor", "toString", "valueOf", "hasOwnProperty", "__proto__"}

\* obj[k] for a plain record of string properties
Get(obj, k) == IF k \in DOMAIN obj THEN obj[k] ELSE undefined

\* obj[k] = v
Put(obj, k, v) == [x \in (DOMAIN obj) \cup {k} |-> IF x = k THEN v ELSE obj[x]]

(***************************************************************************)
(* An object used as a map ({} with string keys) is a sequence of entries  *)
(* in property-creation order; each entry carries its key.                 *)
(***************************************************************************)
HasOwn(obj, k) == \E i \in 1..Len(obj) : obj[i].key = k

IndexOf(obj, k) == CHOOSE i \in 1..Len(obj) : obj[i].key = k

\* truthiness of obj[k]: own entries are objects (truthy), inherited
\* Object.prototype members are truthy too, anything else is undefined
LookupTruthy(obj, k) == HasOwn(obj, k) \/ k \in ObjectPrototypeKeys

\* the integer a canonical array-index string denotes, -1 for other strings
IndexValue(k) ==
    CASE k = "2"  -> 2
      [] k = "10" -> 10
      [] OTHER    -> 0 - 1

IsArrayIndex(k) == IndexValue(k) >= 0

\* Object.keys(obj): the integer-like keys in ascending numeric order, then
\* the other string keys in property-creation order
ObjectKeys(obj) ==
    LET keys == [i \in 1..Len(obj) |-> obj[i].key] IN
    SortSeq(SelectSeq(keys, IsArrayIndex), LAMBDA a, b : IndexValue(a) < IndexValue(b))
        \o SelectSeq(keys, LAMBDA k : ~IsArrayIndex(k))

(***************************************************************************)
(* Input rows.  Papa.parse (header: true) gives every row the fields of    *)
(* the header line, in header order; a row is a sequence of <<key, value>>.*)
(***************************************************************************)
HeaderCaps  == <<"Category", "Item", "GroupingName", "Description", "GroupImage">>
HeaderLower == <<"category", "item", "groupingname", "description", "groupimage">>
HeaderNoCat == <<"Item", "GroupingName", "Description", "GroupImage">>

CategoryValues == {"", "Tacos", "Announcement", "constructor"}
ItemValues     == {"", "Asada"}
GroupValues    == {"", "Street Tacos", "constructor"}
TextValues     == {<<"", "">>, <<"Served with onions", "a.jpg">>}

RowsWithCategory(h) ==
    { << <<h[1], c>>, <<h[2], n>>, <<h[3], g>>, <<h[4], t[1]>>, <<h[5], t[2]>> >> :
        c \in CategoryValues, n \in ItemValues, g \in GroupValues, t \in TextValues }

RowsWithoutCategory(h) ==
    { << <<h[1], n>>, <<h[2], g>>, <<h[3], t[1]>>, <<h[4], t[2]>> >> :
        n \in ItemValues, g \in GroupValues, t \in TextValues }

\* sheets whose section and group names are dish numbers or years
NumberedCategoryValues == {"Tacos", "2", "10"}
NumberedGroupValues    == {"", "Street Tacos", "2", "10"}

NumberedRows ==
    { << <<"Category", c>>, <<"Item", "Asada">>, <<"GroupingName", g>>,
         <<"Description", "">>, <<"GroupImage", "">> >> :
        c \in NumberedCategoryValues, g \in NumberedGroupValues }

NumberedSheets == UNION { [1..n -> NumberedRows] : n \in 0..MaxRows }

Sheets ==
    UNION { [1..n -> RowsWithCategory(HeaderCaps)] : n \in 0..MaxRows }
    \cup UNION { [1..n -> RowsWithCategory(HeaderLower)] : n \in 0..MaxRows }
    \cup UNION { [1..n -> RowsWithoutCategory(HeaderNoCat)] : n \in 0..MaxRows }

(***************************************************************************)
(* processData                                                             *)
(***************************************************************************)
\* the keys copied as the sheet spells them
RECURSIVE Rekey_KeepCase(_, _, _)
Rekey_KeepCase(row, i, item) ==
    IF i > Len(row) THEN item
    ELSE Rekey_KeepCase(row, i + 1, Put(item, row[i][1], row[i][2]))

\* for (const key in row) item[key.toLowerCase()] = row[key];
RECURSIVE Rekey(_, _, _)
Rekey(row, i, item) ==
    IF i > Len(row) THEN item
    ELSE Rekey(row, i + 1, Put(item, toLowerCase(row[i][1]), row[i][2]))

\* item.name = item.item; item.group = item.groupingname; item.groupImage = item.groupimage
NormalizeRow(row) ==
    LET a == Rekey(row, 1, <<>>)
        b == Put(a, "name", Get(a, "item"))
        c == Put(b, "group", Get(b, "groupingname"))
    IN  Put(c, "groupImage", Get(c, "groupimage"))

\* item.category && item.category.toLowerCase() === 'announcement'
IsAnnouncement(item) ==
    /\ ~Falsy(Get(item, "category"))
    /\ toLowerCase(Get(item, "category")) = "announcement"

\* item.category = item.category || 'Menu'
DefaultCategory(item) ==
    Put(item, "category",
        IF Falsy(Get(item, "category")) THEN "Menu" ELSE Get(item, "category"))

\* the name check left out
HasNoName_Never(item) == FALSE

\* if (!item.name) return;
HasNoName(item) == Falsy(item.name)

\* if (!categories[item.category]) categories[item.category] = {groupedItems: {}, individualItems: []}
EnsureCategory(categories, cat) ==
    IF LookupTruthy(categories, cat) THEN categories
    ELSE Append(categories, [key |-> cat, groupedItems |-> <<>>, individualItems |-> <<>>])

\* if (!groupedItems[item.group]) groupedItems[item.group] = {description, image, items: []}
EnsureGroup(groupedItems, item) ==
    IF LookupTruthy(groupedItems, item.group) THEN groupedItems
    ELSE Append(groupedItems, [key         |-> item.group,
                               description |-> Get(item, "description"),
                               image       |-> item.groupImage,
                               items       |-> <<>>])

\* the entry pushed on a group's items; src is the identity of the source row
GroupMember(item, src) ==
    [src |-> src, name |-> item.name, price |-> Get(item, "price"), badge |-> Get(item, "badge")]

\* one iteration of data.forEach; st is the state of the call
\* (st.status = "TypeError": an earlier iteration threw and the call is over)
ProcessRow(st, row, src) ==
    LET raw == NormalizeRow(row) IN
    IF st.status # "ok" THEN st
    ELSE IF IsAnnouncement(raw)
    THEN [st EXCEPT !.announcements = Append(@, [src |-> src, item |-> raw])]
    ELSE LET item == DefaultCategory(raw)
             cat  == item.category
         IN
         IF HasNoName(item) THEN st
         ELSE LET cats == EnsureCategory(st.categories, cat) IN
              \* categories[cat] is an inherited member: .groupedItems and
              \* .individualItems are undefined and the access throws
              IF ~HasOwn(cats, cat) THEN [st EXCEPT !.status = "TypeError"]
              ELSE LET ci == IndexOf(cats, cat) IN
                   IF ~Falsy(item.group)
                   THEN LET groups == EnsureGroup(cats[ci].groupedItems, item) IN
                        \* groupedItems[group] is an inherited member: .items is undefined
                        IF ~HasOwn(groups, item.group)
                        THEN [st EXCEPT !.status = "TypeError"]
                        ELSE LET gi == IndexOf(groups, item.group)
                                 pushed == [groups EXCEPT ![gi].items =
                                               Append(@, GroupMember(item, src))]
                             IN [st EXCEPT !.categories =
                                    [cats EXCEPT ![ci].groupedItems = pushed]]
                   ELSE [st EXCEPT !.categories =
                            [cats EXCEPT ![ci].individualItems =
                                Append(@, [src |-> src, item |-> item])]]

\* data.forEach over the rows at positions idxs (in that order)
RECURSIVE ForEachRow(_, _, _)
ForEachRow(st, data, idxs) ==
    IF idxs = <<>> THEN st
    ELSE ForEachRow(ProcessRow(st, data[Head(idxs)], Head(idxs)), data, Tail(idxs))

AllRows(data) == [i \in 1..Len(data) |-> i]

\* the outcome of a call: what it returns, or the error it raises
\* (a call that throws returns nothing)
Outcome(st) ==
    IF st.status = "ok" THEN st
    ELSE [status |-> st.status, categories |-> <<>>, announcements |-> <<>>]

processDataOver(data, idxs) ==
    Outcome(ForEachRow([status |-> "ok", categories |-> <<>>, announcements |-> <<>>],
                       data, idxs))

processData(data) == processDataOver(data, AllRows(data))

Pending == [status |-> "pending", categories |-> <<>>, announcements |-> <<>>]

(***************************************************************************)
(* Service worker: requests, responses, caches                             *)
(***************************************************************************)
CACHE_NAME        == "tacos-chilis-menu-v1"
STATIC_CACHE_NAME == "tacos-chilis-static-v1"
CacheNames        == {CACHE_NAME, STATIC_CACHE_NAME}

WorkerOrigin == "https://tacoschilis.example"
SheetOrigin  == "https://docs.google.com"
SheetPath    == "/spreadsheets/d/e/2PACX/pub"

\* a URL; query is the sequence of its parameters, href joins them with ? and &
Url(origin, path, query) == [origin |-> origin, path |-> path, query |-> query]

IsCacheBust(param) == param \in {"cacheBust=1", "cacheBust=2"}

Req(method, url, destination, mode) ==
    [method |-> method, url |-> url, destination |-> destination, mode |-> mode]

\* what main.js asks for (SHEET_URL + "&cacheBust=" + Date.now()) and the
\* same export with the parameter absent or in first position
SheetRequests ==
    { Req("GET", Url(SheetOrigin, SheetPath, q), "", "cors") :
        q \in { <<"output=csv">>,
                <<"output=csv", "cacheBust=1">>,
                <<"output=csv", "cacheBust=2">>,
                <<"cacheBust=1", "output=csv">> } }

\* the URLs a CACHE_CSV message names: the export with cacheBust last (as
\* main.js builds it) or first
PrefetchUrls ==
    { Url(SheetOrigin, SheetPath, q) :
        q \in { <<"output=csv", "cacheBust=1">>, <<"cacheBust=1", "output=csv">> } }

\* the requests for the same URLs with another value of cacheBust
RepeatRequests ==
    { Req("GET", Url(SheetOrigin, SheetPath, q), "", "cors") :
        q \in { <<"output=csv", "cacheBust=2">>, <<"cacheBust=2", "output=csv">> } }

ImageRequest  == Req("GET", Url("https://cdn.example", "/img/asada.jpg", <<>>), "image", "no-cors")
StyleRequest  == Req("GET", Url(WorkerOrigin, "/style.css", <<>>), "style", "no-cors")
PageRequest   == Req("GET", Url(WorkerOrigin, "/", <<>>), "document", "navigate")
ScriptRequest == Req("GET", Url("https://cdn.example", "/papaparse.min.js", <<>>), "script", "no-cors")
PostRequest   == Req("POST", Url(WorkerOrigin, "/style.css", <<>>), "", "cors")
\* the page's own logo (STATIC_ASSETS, sw.js 13)
LogoRequest   == Req("GET", Url(WorkerOrigin, "/img/logo.jpeg", <<>>), "image", "no-cors")

AssetRequests ==
    {ImageRequest, StyleRequest, PageRequest, ScriptRequest, PostRequest, LogoRequest}

IndexUrl == Url(WorkerOrigin, "/index.html", <<>>)
MainJsUrl == Url(WorkerOrigin, "/main.js", <<>>)

\* the install manifest
STATIC_ASSETS == {PageRequest.url, IndexUrl, StyleRequest.url, MainJsUrl, LogoRequest.url}

\* a Response: status and body; the body of a network response is the
\* ordinal of the fetch event that obtained it, 0 is content stored earlier
Resp(status, body) == [status |-> status, body |-> body]
NoResponse  == Resp(0, 0)              \* undefined
Offline503  == Resp(503, 0 - 1)        \* new Response('Offline - ...', {status: 503})
StoredEarlier == Resp(200, 0)
Precached   == Resp(200, 0 - 2)        \* fetched by install's cache.addAll

\* url.href.split('&cacheBust=')[0]: the href up to the first "&cacheBust="
\* (a parameter in first position follows "?", not "&")
RECURSIVE SplitAtCacheBust(_, _)
SplitAtCacheBust(query, i) ==
    IF i > Len(query) THEN query
    ELSE IF i > 1 /\ IsCacheBust(query[i]) THEN SubSeq(query, 1, i - 1)
    ELSE SplitAtCacheBust(query, i + 1)

\* const cacheKey = new Request(baseUrl)
CsvCacheKey(url) == [url EXCEPT !.query = SplitAtCacheBust(url.query, 1)]

AllKeys ==
    { CsvCacheKey(r.url) : r \in SheetRequests \cup RepeatRequests }
        \cup { r.url : r \in AssetRequests }
        \cup STATIC_ASSETS

\* cache.match(key) on the cache called name
CacheMatch(store, name, key) == store[name][key]

\* the entry written to the other cache
CachePut_OtherCache(store, name, key, response) ==
    [store EXCEPT ![CHOOSE n \in CacheNames : n # name][key] = response]

\* cache.put(key, response) on the cache called name
CachePut(store, name, key, response) == [store EXCEPT ![name][key] = response]

\* any response that arrived is stored
Cacheable_AnyStatus(response) == response # NoResponse

\* networkResponse && networkResponse.status === 200
Cacheable(response) == response # NoResponse /\ response.status = 200

\* the routing without the method test
Route_AnyMethod(request) ==
    IF request.url.origin # WorkerOrigin
    THEN IF request.url.origin = SheetOrigin /\ request.url.path = SheetPath
         THEN [kind |-> "csv", cacheName |-> CACHE_NAME]
         ELSE IF request.destination = "image"
         THEN [kind |-> "cacheFirst", cacheName |-> CACHE_NAME]
         ELSE [kind |-> "none", cacheName |-> ""]
    ELSE [kind |-> "cacheFirst", cacheName |-> STATIC_CACHE_NAME]

\* the fetch listener's routing: which handler answers, on which cache
\* ("none": respondWith is not called)
Route(request) ==
    IF request.method # "GET" THEN [kind |-> "none", cacheName |-> ""]
    ELSE IF request.url.origin # WorkerOrigin
    THEN IF request.url.origin = SheetOrigin /\ request.url.path = SheetPath
         THEN [kind |-> "csv", cacheName |-> CACHE_NAME]
         ELSE IF request.destination = "image"
         THEN [kind |-> "cacheFirst", cacheName |-> CACHE_NAME]
         ELSE [kind |-> "none", cacheName |-> ""]
    ELSE [kind |-> "cacheFirst", cacheName |-> STATIC_CACHE_NAME]

Pages == {"tab1", "tab2"}

\* self.clients.matchAll(): window clients this worker controls
MatchAll(cl) == { p \in Pages : cl[p] = "controlled" }

Handlers == 1..Len(handlers)

Pending0 == [state |-> "pending", value |-> NoResponse]
Fulfilled(v) == [state |-> "fulfilled", value |-> v]
Rejected     == [state |-> "rejected", value |-> NoResponse]

\* the fetches are served one at a time, in the order of the events
FetchReady_InOrder(hs, h) ==
    hs[h].net = "pending" /\ \A g \in 1..(h - 1) : hs[g].net \notin {"pending", "hung"}

\* fetch(request) (sw.js 96, 157): every handler has a fetch of its own,
\* which can settle whatever the state of the others
FetchReady(hs, h) == hs[h].net = "pending"

\* a completed successful cache.put of some handler for (name, key)
WrittenBy(hs, name, key) ==
    { g \in 1..Len(hs) : hs[g].cacheName = name /\ hs[g].key = key /\ hs[g].put = "done" }

(***************************************************************************)
(* fetch listener (sw.js 52-80)                                            *)
(***************************************************************************)
FetchEvent(request) ==
    /\ Len(handlers) < MaxRequests
    /\ LET route == Route(request)
           key   == IF route.kind = "csv" THEN CsvCacheKey(request.url) ELSE request.url
       IN handlers' = Append(handlers,
            [ kind      |-> route.kind,
              cacheName |-> route.cacheName,
              request   |-> request,
              key       |-> key,
              pc        |-> IF route.kind = "none" THEN "passthrough" ELSE "start",
              cached    |-> NoResponse,      \* cachedResponse
              net       |-> "none",          \* the handler's fetch(request)
              response  |-> NoResponse,      \* networkResponse
              put       |-> "none",          \* the handler's cache.put
              notify    |-> "none",          \* the CSV_UPDATED broadcast
              recipients |-> {},             \* the pages it was posted to
              result    |-> Pending0,        \* the promise given to respondWith
              \* history: was a response for this URL already returned when
              \* the event arrived; had a put for the key completed at lookup
              afterReturn |-> \E g \in Handlers :
                                 /\ handlers[g].request = request
                                 /\ handlers[g].result.state = "fulfilled",
              afterWrite  |-> FALSE ])
    /\ UNCHANGED <<cacheStore, clients>>

(***************************************************************************)
(* handleCSVRequest (sw.js 87-136)                                         *)
(***************************************************************************)
\* the handler always waits for the network
ServesStale_Never(cached) == FALSE

\* if (cachedResponse) return cachedResponse;
ServesStale(cached) == cached # NoResponse

\* lines 88-127: open, match, start the fetch, return the cached response if any
CsvLookup(h) ==
    /\ handlers[h].kind = "csv" /\ handlers[h].pc = "start"
    /\ LET cached == CacheMatch(cacheStore, handlers[h].cacheName, handlers[h].key) IN
       handlers' = [handlers EXCEPT
            ![h].cached = cached,
            ![h].net    = "pending",
            ![h].pc     = "fetching",
            ![h].afterWrite = WrittenBy(handlers, handlers[h].cacheName, handlers[h].key) # {},
            ![h].result = IF ServesStale(cached) THEN Fulfilled(cached) ELSE Pending0]
    /\ UNCHANGED <<cacheStore, clients>>

\* what `await fetchPromise` gives the handler that had no cached response:
\* the .catch of line 116 turns a failed fetch into a fulfilled undefined
AwaitFetchPromise(outcome, response) ==
    IF outcome = "reject" THEN Fulfilled(NoResponse) ELSE Fulfilled(response)

\* lines 96-119 and 130-135: the fetch settles
CsvFetchSettles(h, outcome) ==
    /\ handlers[h].kind = "csv" /\ FetchReady(handlers, h)
    /\ LET response == CASE outcome = "ok"     -> Resp(200, h)
                         [] outcome = "error"  -> Resp(500, h)
                         [] outcome = "reject" -> NoResponse
       IN handlers' = [handlers EXCEPT
            ![h].net      = outcome,
            ![h].response = response,
            ![h].put      = IF outcome # "reject" /\ Cacheable(response)
                            THEN "pending" ELSE "none",
            ![h].result   = IF @.state = "pending"
                            THEN AwaitFetchPromise(outcome, response) ELSE @,
            ![h].pc       = IF outcome # "reject" /\ Cacheable(response)
                            THEN "putting" ELSE "done"]
    /\ UNCHANGED <<cacheStore, clients>>

\* a failed cache write fails the handler
AfterPutFailure_Rejects(result) == Rejected

\* cache.put(...).catch(warn) (sw.js 111-113, 163-165): the rejection is
\* logged and the promise given to respondWith is left as it was
AfterPutFailure(result) == result

\* line 100: cache.put(cacheKey, responseToCache) settles
CsvPutSettles(h, ok) ==
    /\ handlers[h].kind = "csv" /\ handlers[h].put = "pending"
    /\ IF ok
       THEN /\ cacheStore' = CachePut(cacheStore, handlers[h].cacheName,
                                      handlers[h].key, handlers[h].response)
            /\ handlers' = [handlers EXCEPT ![h].put = "done",
                                            ![h].notify = "pending",
                                            ![h].pc = "notifying"]
       ELSE /\ cacheStore' = cacheStore
            /\ handlers' = [handlers EXCEPT ![h].put = "failed", ![h].pc = "done",
                                            ![h].result = AfterPutFailure(@)]
    /\ UNCHANGED clients

\* lines 103-110: matchAll resolves, every client in it is sent CSV_UPDATED
CsvBroadcast(h) ==
    /\ handlers[h].kind = "csv" /\ handlers[h].notify = "pending"
    /\ handlers' = [handlers EXCEPT ![h].notify = "sent",
                                    ![h].recipients = MatchAll(clients),
                                    ![h].pc = "done"]
    /\ UNCHANGED <<cacheStore, clients>>

(***************************************************************************)
(* cacheFirstStrategy (sw.js 144-190)                                      *)
(***************************************************************************)
\* lines 147-157: open, match, return the hit or start the fetch
CfLookup(h) ==
    /\ handlers[h].kind = "cacheFirst" /\ handlers[h].pc = "start"
    /\ LET cached == CacheMatch(cacheStore, handlers[h].cacheName, handlers[h].key) IN
       handlers' = [handlers EXCEPT
            ![h].cached = cached,
            ![h].afterWrite = WrittenBy(handlers, handlers[h].cacheName, handlers[h].key) # {},
            ![h].net    = IF cached # NoResponse THEN "none" ELSE "pending",
            ![h].pc     = IF cached # NoResponse THEN "done" ELSE "fetching",
            ![h].result = IF cached # NoResponse THEN Fulfilled(cached) ELSE Pending0]
    /\ UNCHANGED <<cacheStore, clients>>

\* the catch block rethrows for requests that are not navigations
AfterCatch_Rethrows(navigate) == IF navigate THEN Pending0 ELSE Rejected

\* lines 169-188: the catch block; a navigation goes on to look up
\* /index.html, any other request is answered with the synthetic 503
AfterCatch(navigate) == IF navigate THEN Pending0 ELSE Fulfilled(Offline503)

\* lines 157-188: the fetch settles; a rejection enters the catch block
CfFetchSettles(h, outcome) ==
    /\ handlers[h].kind = "cacheFirst" /\ FetchReady(handlers, h)
    /\ LET response == CASE outcome = "ok"     -> Resp(200, h)
                         [] outcome = "error"  -> Resp(500, h)
                         [] outcome = "reject" -> NoResponse
           navigate == handlers[h].request.mode = "navigate"
       IN handlers' = [handlers EXCEPT
            ![h].net      = outcome,
            ![h].response = response,
            ![h].put      = IF outcome # "reject" /\ Cacheable(response)
                            THEN "pending" ELSE "none",
            ![h].result   = IF outcome # "reject" THEN Fulfilled(response)
                            ELSE AfterCatch(navigate),
            ![h].pc       = CASE outcome = "reject" /\ navigate -> "fallback"
                              [] outcome # "reject" /\ Cacheable(response) -> "putting"
                              [] OTHER -> "done"]
    /\ UNCHANGED <<cacheStore, clients>>

\* the cached markup is never used
FallbackResponse_Always503(cachedIndex) == Offline503

\* lines 175-188: if (cachedIndex) return cachedIndex; return new Response(..., {status: 503})
FallbackResponse(cachedIndex) ==
    IF cachedIndex # NoResponse THEN cachedIndex ELSE Offline503

\* lines 173-188: the navigation fallback
CfFallback(h) ==
    /\ handlers[h].kind = "cacheFirst" /\ handlers[h].pc = "fallback"
    /\ LET cachedIndex == CacheMatch(cacheStore, STATIC_CACHE_NAME, IndexUrl) IN
       handlers' = [handlers EXCEPT
            ![h].pc = "done",
            ![h].result = Fulfilled(FallbackResponse(cachedIndex))]
    /\ UNCHANGED <<cacheStore, clients>>

\* line 163: cache.put(request, responseToCache) settles, nobody awaits it
CfPutSettles(h, ok) ==
    /\ handlers[h].kind = "cacheFirst" /\ handlers[h].put = "pending"
    /\ IF ok
       THEN /\ cacheStore' = CachePut(cacheStore, handlers[h].cacheName,
                                      handlers[h].key, handlers[h].response)
            /\ handlers' = [handlers EXCEPT ![h].put = "done", ![h].pc = "done"]
       ELSE /\ cacheStore' = cacheStore
            /\ handlers' = [handlers EXCEPT ![h].put = "failed", ![h].pc = "done",
                                            ![h].result = AfterPutFailure(@)]
    /\ UNCHANGED clients

\* the fetch of handler h never settles (there is no timeout, sw.js 96, 157)
FetchHangs(h) ==
    /\ handlers[h].net = "pending"
    /\ handlers' = [handlers EXCEPT ![h].net = "hung"]
    /\ UNCHANGED <<cacheStore, clients>>

(***************************************************************************)
(* The browser's pages                                                     *)
(***************************************************************************)
\* a page in scope is opened: the active worker controls it
PageOpens(p) ==
    /\ clients[p] = "closed"
    /\ clients' = [clients EXCEPT ![p] = "controlled"]
    /\ UNCHANGED <<cacheStore, handlers>>

\* a forced reload: the page bypasses the worker and is not controlled
PageForceReloads(p) ==
    /\ clients[p] = "controlled"
    /\ clients' = [clients EXCEPT ![p] = "uncontrolled"]
    /\ UNCHANGED <<cacheStore, handlers>>

PageCloses(p) ==
    /\ clients[p] # "closed"
    /\ clients' = [clients EXCEPT ![p] = "closed"]
    /\ UNCHANGED <<cacheStore, handlers>>

(***************************************************************************)
(* Specification of the model builder: any sheet, one call                 *)
(***************************************************************************)
(***************************************************************************)
(* The page (src/main.js).  The file holds two script blocks; both find    *)
(* the same #menu element and both register loadMenuData for               *)
(* DOMContentLoaded.                                                       *)
(***************************************************************************)
\* first block, lines 42-67: one iteration of data.forEach
ProcessRow1(st, row, src) ==
    LET item     == Rekey(row, 1, <<>>)
        category == Get(item, "category")
    IN
    IF st.status # "ok" THEN st
    ELSE IF Falsy(category) \/ Falsy(Get(item, "item")) THEN st
    ELSE LET cats == IF LookupTruthy(st.categories, category) THEN st.categories
                     ELSE Append(st.categories, [key |-> category, items |-> <<>>])
         IN
         \* categories[category] is an inherited member without push
         IF ~HasOwn(cats, category) THEN [st EXCEPT !.status = "TypeError"]
         ELSE LET ci == IndexOf(cats, category)
                  special == ~Falsy(Get(item, "special"))
                                /\ toLowerCase(Get(item, "special")) = "yes"
              IN [st EXCEPT
                    !.categories = [cats EXCEPT ![ci].items =
                                       Append(@, [src |-> src, item |-> item])],
                    !.specials = IF special THEN Append(@, [src |-> src, item |-> item])
                                 ELSE @]

RECURSIVE ForEachRow1(_, _, _)
ForEachRow1(st, data, i) ==
    IF i > Len(data) THEN st
    ELSE ForEachRow1(ProcessRow1(st, data[i], i), data, i + 1)

\* first block, lines 42-67
processData1(data) ==
    ForEachRow1([status |-> "ok", categories |-> <<>>, specials |-> <<>>], data, 1)

PageSheets ==
    UNION { [1..n -> RowsWithCategory(HeaderCaps)] : n \in 0..MaxSheetRows }
    \cup UNION { [1..n -> RowsWithCategory(HeaderLower)] : n \in 0..MaxSheetRows }
    \cup UNION { [1..n -> RowsWithoutCategory(HeaderNoCat)] : n \in 0..MaxSheetRows }

View(view, script, model) == [view |-> view, script |-> script, model |-> model]

\* loadMenuData of one block (lines 20-40, 248-284): show the loading
\* markup, start Papa.parse
loadMenuData(loads, script) ==
    [ loads |-> Append(loads, [script |-> script, state |-> "pending",
                               \* history: the messages dispatched before the
                               \* call, what its callback showed
                               notified |-> pgNotified, outcome |-> "none"]),
      menu  |-> View("loading", script, <<>>) ]

Loads == 1..Len(pgLoads)

(***************************************************************************)
(* The ribbon (main.js 113-122, 426-459)                                   *)
(***************************************************************************)
\* items: the .announcement-item elements of the ribbon, TRUE for one that
\* has the class is-visible; timers: currentItemIndex of each interval
\* timer, none is ever cleared; threw: a timer callback raised a TypeError
EmptyRibbon == [display |-> "none", items |-> <<>>, timers |-> <<>>, threw |-> FALSE]

\* updateSpecialsRibbon(specials) of the first block: the markup it writes
\* holds no .announcement-item
updateSpecialsRibbon(ribbon, n) ==
    IF n = 0 THEN [ribbon EXCEPT !.display = "none"]
    ELSE [ribbon EXCEPT !.display = "block", !.items = <<>>]

\* let currentItemIndex = 0; setInterval(..., 3000): one more timer
StartRotator(timers) == Append(timers, 0)

\* setupAnnouncementRibbon(announcements) of the second block, for a list of
\* n announcements
setupAnnouncementRibbon(ribbon, n) ==
    IF n = 0 THEN [ribbon EXCEPT !.display = "none"]
    ELSE [ribbon EXCEPT !.display = "block",
                        !.items   = [i \in 1..n |-> i = 1],
                        !.timers  = IF n < 2 THEN @ ELSE StartRotator(@)]

\* one run of the callback of timer t; indexes are those of the code (from 0)
Tick(ribbon, t) ==
    LET n   == Len(ribbon.items)
        cur == ribbon.timers[t]
        nxt == (cur + 1) % n
    IN  IF cur >= n
        THEN [ribbon EXCEPT !.threw = TRUE]    \* items[currentItemIndex] is undefined
        ELSE [ribbon EXCEPT !.items  = [[@ EXCEPT ![cur + 1] = FALSE] EXCEPT ![nxt + 1] = TRUE],
                            !.timers = [@ EXCEPT ![t] = nxt]]

Reloads == Cardinality({ l \in Loads : l > 2 })

\* line 184 and line 508: both blocks' listeners run, in registration order
DOMContentLoaded ==
    /\ ~pgStarted
    /\ pgStarted' = TRUE
    /\ LET first  == loadMenuData(pgLoads, 1)
           second == loadMenuData(first.loads, 2)
       IN pgLoads' = second.loads /\ pgMenu' = second.menu
    /\ UNCHANGED <<pgSheet, pgNotified, pgRibbon>>

\* refreshBtn.onclick (line 165, replaced by the assignment of line 472), the
\* R key (lines 479-497) and the retry button of the error state (lines
\* 239-244): each calls loadMenuData of the second block
ReloadRequested ==
    /\ pgStarted
    /\ Reloads < MaxReloads
    /\ LET r == loadMenuData(pgLoads, 2) IN pgLoads' = r.loads /\ pgMenu' = r.menu
    /\ UNCHANGED <<pgSheet, pgStarted, pgNotified, pgRibbon>>

\* the complete callback of a load of the first block (lines 29-35): an
\* exception of processData leaves the container as it is
ParseComplete1(l) ==
    /\ pgLoads[l].state = "pending" /\ pgLoads[l].script = 1
    /\ LET processed == processData1(pgSheet) IN
       /\ pgLoads' = [pgLoads EXCEPT ![l].state = "done",
                                     ![l].outcome = IF processed.status = "ok"
                                                    THEN "menu" ELSE "threw"]
       /\ pgMenu' = IF processed.status = "ok" THEN View("menu", 1, processed.categories)
                    ELSE pgMenu
       /\ pgRibbon' = IF processed.status = "ok"
                      THEN updateSpecialsRibbon(pgRibbon, Len(processed.specials))
                      ELSE pgRibbon
    /\ UNCHANGED <<pgSheet, pgStarted, pgNotified>>

\* the complete callback of a load of the second block (lines 264-279)
ParseComplete2(l) ==
    /\ pgLoads[l].state = "pending" /\ pgLoads[l].script = 2
    /\ LET processed == processData(pgSheet) IN
       /\ pgLoads' = [pgLoads EXCEPT ![l].state = "done",
                                     ![l].outcome = IF Len(pgSheet) = 0 \/ processed.status # "ok"
                                                    THEN "error" ELSE "menu"]
       /\ pgMenu' = IF Len(pgSheet) = 0 \/ processed.status # "ok"
                    THEN View("error", 2, <<>>)
                    ELSE View("menu", 2, processed.categories)
       /\ pgRibbon' = IF Len(pgSheet) = 0 \/ processed.status # "ok"
                      THEN pgRibbon
                      ELSE setupAnnouncementRibbon(pgRibbon, Len(processed.announcements))
    /\ UNCHANGED <<pgSheet, pgStarted, pgNotified>>

\* the error callback of a load (lines 36-38, 280-282)
ParseError(l) ==
    /\ pgLoads[l].state = "pending"
    /\ pgLoads' = [pgLoads EXCEPT ![l].state = "done", ![l].outcome = "error"]
    /\ pgMenu' = View("error", pgLoads[l].script, <<>>)
    /\ UNCHANGED <<pgSheet, pgStarted, pgNotified, pgRibbon>>

\* a CSV_UPDATED message of the worker (sw.js 105-108) is dispatched at the
\* page: main.js registers no listener for it, so nothing else changes
CsvUpdatedDispatched ==
    /\ pgStarted
    /\ pgNotified < MaxMessages
    /\ pgNotified' = pgNotified + 1
    /\ UNCHANGED <<pgSheet, pgStarted, pgLoads, pgMenu, pgRibbon>>

\* the callback of a timer setupAnnouncementRibbon started (lines 451-457)
TimerTick(t) ==
    /\ t \in 1..Len(pgRibbon.timers)
    /\ pgRibbon' = Tick(pgRibbon, t)
    /\ UNCHANGED <<pgSheet, pgStarted, pgLoads, pgMenu, pgNotified>>

\* the complete callback of a load of the second block whose rows hold n
\* announcements reaches line 273
AnnouncementsLoaded(n) ==
    /\ Len(pgRibbon.timers) < MaxTimers
    /\ pgRibbon' = setupAnnouncementRibbon(pgRibbon, n)
    /\ UNCHANGED <<pgSheet, pgStarted, pgLoads, pgMenu, pgNotified>>

vars == <<pdData, pdOut, cacheStore, handlers, clients, cacheNames, worker, prefetches,
          pgSheet, pgStarted, pgLoads, pgMenu, pgNotified, pgRibbon>>

EmptyStore == [name \in CacheNames |-> [key \in AllKeys |-> NoResponse]]

\* the lifecycle record of a worker whose script was just evaluated
NewWorker ==
    [ state       |-> "parsed",
      skipWaiting |-> FALSE,        \* self.skipWaiting() was called
      install     |-> "none",       \* the promise given to install's waitUntil
      keys        |-> "none",       \* activate: caches.keys()
      deleting    |-> {},           \* activate: the caches.delete calls in flight
      claim       |-> "none",       \* activate: self.clients.claim()
      \* history: CacheStorage when the activate event was dispatched
      before      |-> [names |-> {}, store |-> EmptyStore] ]

WorkerIdle ==
    /\ cacheStore = EmptyStore
    /\ handlers = <<>>
    /\ clients = [p \in Pages |-> "closed"]
    /\ cacheNames = {}
    /\ worker = NewWorker
    /\ prefetches = <<>>

\* the worker is active and both caches of its generation exist
WorkerActive ==
    /\ cacheNames = CacheNames
    /\ worker = [NewWorker EXCEPT !.state = "activated", !.skipWaiting = TRUE,
                                  !.install = "ok", !.keys = "done", !.claim = "done"]
    /\ prefetches = <<>>

PageIdle ==
    /\ pgSheet = <<>>
    /\ pgStarted = FALSE
    /\ pgLoads = <<>>
    /\ pgMenu = View("empty", 0, <<>>)
    /\ pgNotified = 0
    /\ pgRibbon = EmptyRibbon

BuilderIdle ==
    /\ pdData = <<>>
    /\ pdOut = Pending

InitBuild ==
    /\ pdData \in Sheets
    /\ pdOut = Pending
    /\ WorkerIdle
    /\ PageIdle

CallProcessData ==
    /\ pdOut.status = "pending"
    /\ pdOut' = processData(pdData)
    /\ UNCHANGED <<pdData, swVars, pgVars>>

NextBuild == CallProcessData

SpecBuild == InitBuild /\ [][NextBuild]_vars

(***************************************************************************)
(* Specification of the model builder on sheets with numbered sections     *)
(***************************************************************************)
InitNumbered ==
    /\ pdData \in NumberedSheets
    /\ pdOut = Pending
    /\ WorkerIdle
    /\ PageIdle

SpecNumbered == InitNumbered /\ [][NextBuild]_vars

(***************************************************************************)
(* Specification of the worker serving the spreadsheet export: the data    *)
(* cache is cold or holds an earlier copy of the export                    *)
(***************************************************************************)
InitSheet ==
    /\ BuilderIdle
    /\ PageIdle
    /\ \E warm \in SUBSET { CsvCacheKey(r.url) : r \in SheetRequests } :
          cacheStore = [EmptyStore EXCEPT ![CACHE_NAME] =
                           [key \in AllKeys |-> IF key \in warm THEN StoredEarlier
                                                ELSE NoResponse]]
    /\ handlers = <<>>
    /\ clients = [p \in Pages |-> "controlled"]
    /\ WorkerActive

FetchOutcomes == {"ok", "error", "reject"}

NextSheet ==
    \/ \E r \in SheetRequests : FetchEvent(r) /\ UNCHANGED <<pdVars, pgVars, lcVars>>
    \/ \E h \in Handlers : CsvLookup(h) /\ UNCHANGED <<pdVars, pgVars, lcVars>>
    \/ \E h \in Handlers, o \in FetchOutcomes : CsvFetchSettles(h, o) /\ UNCHANGED <<pdVars, pgVars, lcVars>>
    \/ \E h \in Handlers, ok \in BOOLEAN : CsvPutSettles(h, ok) /\ UNCHANGED <<pdVars, pgVars, lcVars>>
    \/ \E h \in Handlers : CsvBroadcast(h) /\ UNCHANGED <<pdVars, pgVars, lcVars>>

SpecSheet == InitSheet /\ [][NextSheet]_vars

(***************************************************************************)
(* Specification of the refresh broadcast: the page's own request for the  *)
(* export (main.js: SHEET_URL + "&cacheBust=" + Date.now()) while pages    *)
(* open, are force-reloaded and close                                      *)
(***************************************************************************)
PageSheetRequest ==
    Req("GET", Url(SheetOrigin, SheetPath, <<"output=csv", "cacheBust=1">>), "", "cors")

InitNotify ==
    /\ BuilderIdle
    /\ PageIdle
    /\ \E warm \in BOOLEAN :
          cacheStore = [EmptyStore EXCEPT ![CACHE_NAME][CsvCacheKey(PageSheetRequest.url)] =
                           IF warm THEN StoredEarlier ELSE NoResponse]
    /\ handlers = <<>>
    /\ clients \in [Pages -> {"closed", "controlled"}]
    /\ WorkerActive

NextNotify ==
    \/ FetchEvent(PageSheetRequest) /\ UNCHANGED <<pdVars, pgVars, lcVars>>
    \/ \E h \in Handlers : CsvLookup(h) /\ UNCHANGED <<pdVars, pgVars, lcVars>>
    \/ \E h \in Handlers, o \in FetchOutcomes : CsvFetchSettles(h, o) /\ UNCHANGED <<pdVars, pgVars, lcVars>>
    \/ \E h \in Handlers, ok \in BOOLEAN : CsvPutSettles(h, ok) /\ UNCHANGED <<pdVars, pgVars, lcVars>>
    \/ \E h \in Handlers : CsvBroadcast(h) /\ UNCHANGED <<pdVars, pgVars, lcVars>>
    \/ \E p \in Pages : PageOpens(p) /\ UNCHANGED <<pdVars, pgVars, lcVars>>
    \/ \E p \in Pages : PageForceReloads(p) /\ UNCHANGED <<pdVars, pgVars, lcVars>>
    \/ \E p \in Pages : PageCloses(p) /\ UNCHANGED <<pdVars, pgVars, lcVars>>

SpecNotify == InitNotify /\ [][NextNotify]_vars

(***************************************************************************)
(* Specification of the worker serving images and static assets: the image *)
(* cache is cold, the static cache holds /index.html or not                *)
(***************************************************************************)
InitAssets ==
    /\ BuilderIdle
    /\ PageIdle
    /\ \E installed \in BOOLEAN :
          cacheStore = [EmptyStore EXCEPT ![STATIC_CACHE_NAME][IndexUrl] =
                           IF installed THEN StoredEarlier ELSE NoResponse]
    /\ handlers = <<>>
    /\ clients = [p \in Pages |-> "closed"]
    /\ WorkerActive

NextAssets ==
    \/ \E r \in AssetRequests : FetchEvent(r) /\ UNCHANGED <<pdVars, pgVars, lcVars>>
    \/ \E h \in Handlers : CfLookup(h) /\ UNCHANGED <<pdVars, pgVars, lcVars>>
    \/ \E h \in Handlers, o \in FetchOutcomes : CfFetchSettles(h, o) /\ UNCHANGED <<pdVars, pgVars, lcVars>>
    \/ \E h \in Handlers : CfFallback(h) /\ UNCHANGED <<pdVars, pgVars, lcVars>>
    \/ \E h \in Handlers, ok \in BOOLEAN : CfPutSettles(h, ok) /\ UNCHANGED <<pdVars, pgVars, lcVars>>

SpecAssets == InitAssets /\ [][NextAssets]_vars

(***************************************************************************)
(* Specification of the fetch listener: requests of every class arrive at  *)
(* a worker whose caches are cold                                          *)
(***************************************************************************)
FetchRequests == AssetRequests \cup {PageSheetRequest}

InitFetch ==
    /\ BuilderIdle
    /\ PageIdle
    /\ cacheStore = EmptyStore
    /\ handlers = <<>>
    /\ clients = [p \in Pages |-> "controlled"]
    /\ WorkerActive

NextFetch ==
    \/ \E r \in FetchRequests : FetchEvent(r) /\ UNCHANGED <<pdVars, pgVars, lcVars>>
    \/ \E h \in Handlers : CsvLookup(h) /\ UNCHANGED <<pdVars, pgVars, lcVars>>
    \/ \E h \in Handlers, o \in FetchOutcomes : CsvFetchSettles(h, o) /\ UNCHANGED <<pdVars, pgVars, lcVars>>
    \/ \E h \in Handlers, ok \in BOOLEAN : CsvPutSettles(h, ok) /\ UNCHANGED <<pdVars, pgVars, lcVars>>
    \/ \E h \in Handlers : CsvBroadcast(h) /\ UNCHANGED <<pdVars, pgVars, lcVars>>
    \/ \E h \in Handlers : CfLookup(h) /\ UNCHANGED <<pdVars, pgVars, lcVars>>
    \/ \E h \in Handlers, o \in FetchOutcomes : CfFetchSettles(h, o) /\ UNCHANGED <<pdVars, pgVars, lcVars>>
    \/ \E h \in Handlers : CfFallback(h) /\ UNCHANGED <<pdVars, pgVars, lcVars>>
    \/ \E h \in Handlers, ok \in BOOLEAN : CfPutSettles(h, ok) /\ UNCHANGED <<pdVars, pgVars, lcVars>>

SpecFetch == InitFetch /\ [][NextFetch]_vars

(***************************************************************************)
(* message listener, CACHE_CSV (sw.js 198-215)                             *)
(***************************************************************************)
Prefetches == 1..Len(prefetches)

\* const baseUrl = url.split('&cacheBust=')[0]; const cacheKey = new Request(baseUrl)
MessageCacheKey(url) == [url EXCEPT !.query = SplitAtCacheBust(url.query, 1)]

\* response.ok
Ok(response) == response # NoResponse /\ response.status >= 200 /\ response.status <= 299

\* the body of the response the m-th message's fetch obtains
PrefetchBody(m) == 0 - (2 + m)

\* a CACHE_CSV message with a url arrives: the key is computed, the cache
\* is opened and fetch(url) is started
MessageCacheCsv(url) ==
    /\ Len(prefetches) < MaxMessages
    /\ worker.state = "activated"
    /\ prefetches' = Append(prefetches,
            [ url      |-> url,
              key      |-> MessageCacheKey(url),
              net      |-> "pending",        \* fetch(url)
              response |-> NoResponse,
              put      |-> "none" ])         \* cache.put(cacheKey, response.clone())
    /\ UNCHANGED <<cacheStore, handlers, clients, cacheNames, worker>>

\* how fetch(url) can settle: as in the handlers, or with a 2xx status
\* other than 200 (204 No Content)
PrefetchOutcomes == {"ok", "noContent", "error", "reject"}

\* fetch(url) settles: an ok response is put, anything else ends the work
\* (a rejection is caught and logged)
PrefetchFetchSettles(m, outcome) ==
    /\ prefetches[m].net = "pending"
    /\ LET response == CASE outcome = "ok"     -> Resp(200, PrefetchBody(m))
                         [] outcome = "noContent" -> Resp(204, PrefetchBody(m))
                         [] outcome = "error"  -> Resp(500, PrefetchBody(m))
                         [] outcome = "reject" -> NoResponse
       IN prefetches' = [prefetches EXCEPT
            ![m].net      = outcome,
            ![m].response = response,
            ![m].put      = IF Ok(response) THEN "pending" ELSE "none"]
    /\ UNCHANGED <<cacheStore, handlers, clients, cacheNames, worker>>

\* cache.put(cacheKey, response.clone()) settles
PrefetchPutSettles(m, ok) ==
    /\ prefetches[m].put = "pending"
    /\ IF ok
       THEN /\ cacheStore' = CachePut(cacheStore, CACHE_NAME, prefetches[m].key,
                                      prefetches[m].response)
            /\ prefetches' = [prefetches EXCEPT ![m].put = "done"]
       ELSE /\ cacheStore' = cacheStore
            /\ prefetches' = [prefetches EXCEPT ![m].put = "failed"]
    /\ UNCHANGED <<handlers, clients, cacheNames, worker>>

(***************************************************************************)
(* install and activate listeners (sw.js 17-49)                            *)
(***************************************************************************)
\* caches an earlier generation of the worker left behind
StaleCacheNames == {"tacos-chilis-menu-v0", "tacos-chilis-static-v0"}

\* how the work of install's waitUntil can end
InstallOutcomes == {"ok", "addAllFailed", "openFailed"}

\* a failed install makes the worker redundant
InstallResult_NoCatch(outcome) == IF outcome = "ok" THEN "installed" ELSE "redundant"

\* caches.open(...).then(addAll).catch(log): the promise given to waitUntil
\* is fulfilled whatever the outcome, so the install succeeds
InstallResult(outcome) == "installed"

\* only the data cache is kept
IsStale_KeepsDataOnly(cacheName) == cacheName # CACHE_NAME

\* cacheName !== CACHE_NAME && cacheName !== STATIC_CACHE_NAME
IsStale(cacheName) == cacheName # CACHE_NAME /\ cacheName # STATIC_CACHE_NAME

\* the install event: the listener starts the precaching and calls
\* self.skipWaiting() before it returns
InstallEvent ==
    /\ worker.state = "parsed"
    /\ worker' = [worker EXCEPT !.state = "installing", !.install = "pending",
                                !.skipWaiting = TRUE]
    /\ UNCHANGED <<cacheStore, handlers, clients, cacheNames, prefetches>>

\* caches.open(STATIC_CACHE_NAME) and cache.addAll(...) settle; addAll stores
\* all of the manifest or nothing
InstallSettles(outcome) ==
    /\ worker.state = "installing"
    /\ worker.install = "pending"
    /\ cacheNames' = IF outcome = "openFailed" THEN cacheNames
                     ELSE cacheNames \cup {STATIC_CACHE_NAME}
    /\ cacheStore' =
          IF outcome = "ok"
          THEN [cacheStore EXCEPT ![STATIC_CACHE_NAME] =
                   [key \in AllKeys |-> IF key \in STATIC_ASSETS THEN Precached ELSE @[key]]]
          ELSE cacheStore
    /\ worker' = [worker EXCEPT !.install = outcome, !.state = InstallResult(outcome)]
    /\ UNCHANGED <<handlers, clients, prefetches>>

\* the browser activates the installed worker: at once after skipWaiting(),
\* else when no page is controlled by the previous generation.  The pages
\* the previous generation controlled are handed to the new worker, then
\* the activate listener runs: it asks for caches.keys() and calls
\* self.clients.claim() before it returns.
Activate ==
    /\ worker.state = "installed"
    /\ worker.skipWaiting \/ \A p \in Pages : clients[p] # "old"
    /\ worker' = [worker EXCEPT !.state = "activating", !.keys = "pending",
                                !.claim = "pending",
                                !.before = [names |-> cacheNames, store |-> cacheStore]]
    /\ clients' = [p \in Pages |-> IF clients[p] = "old" THEN "controlled" ELSE clients[p]]
    /\ UNCHANGED <<cacheStore, handlers, cacheNames, prefetches>>

\* caches.keys() resolves: a caches.delete is started for every stale name
KeysResolve ==
    /\ worker.keys = "pending"
    /\ worker' = [worker EXCEPT !.keys = "done",
                                !.deleting = { n \in cacheNames : IsStale(n) }]
    /\ UNCHANGED <<cacheStore, handlers, clients, cacheNames, prefetches>>

\* one caches.delete(cacheName) completes
DeleteSettles(cacheName) ==
    /\ cacheName \in worker.deleting
    /\ cacheNames' = cacheNames \ {cacheName}
    /\ cacheStore' = IF cacheName \in CacheNames
                     THEN [cacheStore EXCEPT ![cacheName] = [key \in AllKeys |-> NoResponse]]
                     ELSE cacheStore
    /\ worker' = [worker EXCEPT !.deleting = @ \ {cacheName}]
    /\ UNCHANGED <<handlers, clients, prefetches>>

\* Promise.all of the deletions is fulfilled: waitUntil's promise settles
ActivateCompletes ==
    /\ worker.state = "activating"
    /\ worker.keys = "done"
    /\ worker.deleting = {}
    /\ worker' = [worker EXCEPT !.state = "activated"]
    /\ UNCHANGED <<cacheStore, handlers, clients, cacheNames, prefetches>>

\* self.clients.claim() takes effect: the open pages in scope are controlled
ClaimSettles ==
    /\ worker.claim = "pending"
    /\ worker' = [worker EXCEPT !.claim = "done"]
    /\ clients' = [p \in Pages |-> IF clients[p] = "uncontrolled" THEN "controlled"
                                   ELSE clients[p]]
    /\ UNCHANGED <<cacheStore, handlers, cacheNames, prefetches>>

(***************************************************************************)
(* Specification of the worker's life cycle: a new worker is installed     *)
(* over whatever caches exist, with pages closed, open without a worker    *)
(* or controlled by the previous generation ("old")                        *)
(***************************************************************************)
InitLifecycle ==
    /\ BuilderIdle
    /\ PageIdle
    /\ cacheNames \in SUBSET (CacheNames \cup StaleCacheNames)
    /\ \E warm \in BOOLEAN :
          cacheStore =
            [name \in CacheNames |->
               [key \in AllKeys |->
                  IF /\ warm
                     /\ name \in cacheNames
                     /\ \/ name = STATIC_CACHE_NAME /\ key = IndexUrl
                        \/ name = CACHE_NAME /\ key = CsvCacheKey(PageSheetRequest.url)
                  THEN StoredEarlier ELSE NoResponse]]
    /\ handlers = <<>>
    /\ clients \in [Pages -> {"closed", "uncontrolled", "old"}]
    /\ worker = NewWorker
    /\ prefetches = <<>>

NextLifecycle ==
    \/ InstallEvent /\ UNCHANGED <<pdVars, pgVars>>
    \/ \E o \in InstallOutcomes : InstallSettles(o) /\ UNCHANGED <<pdVars, pgVars>>
    \/ Activate /\ UNCHANGED <<pdVars, pgVars>>
    \/ KeysResolve /\ UNCHANGED <<pdVars, pgVars>>
    \/ \E n \in StaleCacheNames \cup CacheNames : DeleteSettles(n) /\ UNCHANGED <<pdVars, pgVars>>
    \/ ActivateCompletes /\ UNCHANGED <<pdVars, pgVars>>
    \/ ClaimSettles /\ UNCHANGED <<pdVars, pgVars>>

SpecLifecycle == InitLifecycle /\ [][NextLifecycle]_vars

\* the browser dispatches the events and every promise of install and
\* activate settles
SpecLifecycleFair ==
    /\ SpecLifecycle
    /\ WF_vars((InstallEvent) /\ UNCHANGED <<pdVars, pgVars>>)
    /\ WF_vars((\E o \in InstallOutcomes : InstallSettles(o)) /\ UNCHANGED <<pdVars, pgVars>>)
    /\ WF_vars((Activate) /\ UNCHANGED <<pdVars, pgVars>>)
    /\ WF_vars((KeysResolve) /\ UNCHANGED <<pdVars, pgVars>>)
    /\ WF_vars((\E n \in StaleCacheNames \cup CacheNames : DeleteSettles(n)) /\ UNCHANGED <<pdVars, pgVars>>)
    /\ WF_vars((ActivateCompletes) /\ UNCHANGED <<pdVars, pgVars>>)
    /\ WF_vars((ClaimSettles) /\ UNCHANGED <<pdVars, pgVars>>)

(***************************************************************************)
(* Specification of the prefetch: CACHE_CSV messages and fetch events for  *)
(* the export arrive at an active worker whose data cache is cold          *)
(***************************************************************************)
InitPrefetch ==
    /\ BuilderIdle
    /\ PageIdle
    /\ cacheStore = EmptyStore
    /\ handlers = <<>>
    /\ clients = [p \in Pages |-> "controlled"]
    /\ WorkerActive

NextPrefetch ==
    \/ \E url \in PrefetchUrls : MessageCacheCsv(url) /\ UNCHANGED <<pdVars, pgVars>>
    \/ \E m \in Prefetches, o \in PrefetchOutcomes :
          PrefetchFetchSettles(m, o) /\ UNCHANGED <<pdVars, pgVars>>
    \/ \E m \in Prefetches, ok \in BOOLEAN :
          PrefetchPutSettles(m, ok) /\ UNCHANGED <<pdVars, pgVars>>
    \/ \E r \in RepeatRequests : FetchEvent(r) /\ UNCHANGED <<pdVars, pgVars, lcVars>>
    \/ \E h \in Handlers : CsvLookup(h) /\ UNCHANGED <<pdVars, pgVars, lcVars>>
    \/ \E h \in Handlers, o \in FetchOutcomes : CsvFetchSettles(h, o) /\ UNCHANGED <<pdVars, pgVars, lcVars>>
    \/ \E h \in Handlers, ok \in BOOLEAN : CsvPutSettles(h, ok) /\ UNCHANGED <<pdVars, pgVars, lcVars>>
    \/ \E h \in Handlers : CsvBroadcast(h) /\ UNCHANGED <<pdVars, pgVars, lcVars>>

SpecPrefetch == InitPrefetch /\ [][NextPrefetch]_vars

(***************************************************************************)
(* Specification of hung fetches: requests for the export and for an image *)
(* arrive, any fetch may hang for ever; every step of a handler that is    *)
(* enabled is eventually taken                                             *)
(***************************************************************************)
HungRequests == {PageSheetRequest, ImageRequest}

InitHung ==
    /\ BuilderIdle
    /\ PageIdle
    /\ \E warm \in BOOLEAN :
          cacheStore = [EmptyStore EXCEPT ![CACHE_NAME][CsvCacheKey(PageSheetRequest.url)] =
                           IF warm THEN StoredEarlier ELSE NoResponse]
    /\ handlers = <<>>
    /\ clients = [p \in Pages |-> "controlled"]
    /\ WorkerActive

HungFetchEvent     == \E r \in HungRequests : FetchEvent(r) /\ UNCHANGED <<pdVars, pgVars, lcVars>>
HungFetchHangs     == \E h \in Handlers : FetchHangs(h) /\ UNCHANGED <<pdVars, pgVars, lcVars>>
HungCsvLookup      == \E h \in Handlers : CsvLookup(h) /\ UNCHANGED <<pdVars, pgVars, lcVars>>
HungCsvFetchSettles ==
    \E h \in Handlers, o \in FetchOutcomes : CsvFetchSettles(h, o) /\ UNCHANGED <<pdVars, pgVars, lcVars>>
HungCsvPutSettles  ==
    \E h \in Handlers, ok \in BOOLEAN : CsvPutSettles(h, ok) /\ UNCHANGED <<pdVars, pgVars, lcVars>>
HungCsvBroadcast   == \E h \in Handlers : CsvBroadcast(h) /\ UNCHANGED <<pdVars, pgVars, lcVars>>
HungCfLookup       == \E h \in Handlers : CfLookup(h) /\ UNCHANGED <<pdVars, pgVars, lcVars>>
HungCfFetchSettles ==
    \E h \in Handlers, o \in FetchOutcomes : CfFetchSettles(h, o) /\ UNCHANGED <<pdVars, pgVars, lcVars>>
HungCfPutSettles   ==
    \E h \in Handlers, ok \in BOOLEAN : CfPutSettles(h, ok) /\ UNCHANGED <<pdVars, pgVars, lcVars>>

NextHung ==
    \/ HungFetchEvent
    \/ HungFetchHangs
    \/ HungCsvLookup
    \/ HungCsvFetchSettles
    \/ HungCsvPutSettles
    \/ HungCsvBroadcast
    \/ HungCfLookup
    \/ HungCfFetchSettles
    \/ HungCfPutSettles

SpecHung ==
    /\ InitHung /\ [][NextHung]_vars
    /\ WF_vars(HungCsvLookup)
    /\ WF_vars(HungCsvFetchSettles)
    /\ WF_vars(HungCsvPutSettles)
    /\ WF_vars(HungCsvBroadcast)
    /\ WF_vars(HungCfLookup)
    /\ WF_vars(HungCfFetchSettles)
    /\ WF_vars(HungCfPutSettles)

(***************************************************************************)
(* Specification of the page: any export, the initial load and reloads     *)
(***************************************************************************)
InitPage ==
    /\ BuilderIdle
    /\ WorkerIdle
    /\ pgSheet \in PageSheets
    /\ pgStarted = FALSE
    /\ pgLoads = <<>>
    /\ pgMenu = View("empty", 0, <<>>)
    /\ pgNotified = 0
    /\ pgRibbon = EmptyRibbon

NextPage ==
    \/ DOMContentLoaded /\ UNCHANGED <<pdVars, swVars>>
    \/ ReloadRequested /\ UNCHANGED <<pdVars, swVars>>
    \/ \E l \in Loads : ParseComplete1(l) /\ UNCHANGED <<pdVars, swVars>>
    \/ \E l \in Loads : ParseComplete2(l) /\ UNCHANGED <<pdVars, swVars>>
    \/ \E l \in Loads : ParseError(l) /\ UNCHANGED <<pdVars, swVars>>

SpecPage == InitPage /\ [][NextPage]_vars

(***************************************************************************)
(* Specification of the page that is sent CSV_UPDATED messages             *)
(***************************************************************************)
NotifiedLoadSettles ==
    \E l \in Loads :
        (ParseComplete1(l) \/ ParseComplete2(l) \/ ParseError(l)) /\ UNCHANGED <<pdVars, swVars>>

NextNotified ==
    \/ DOMContentLoaded /\ UNCHANGED <<pdVars, swVars>>
    \/ ReloadRequested /\ UNCHANGED <<pdVars, swVars>>
    \/ CsvUpdatedDispatched /\ UNCHANGED <<pdVars, swVars>>
    \/ NotifiedLoadSettles

SpecNotified == InitPage /\ [][NextNotified]_vars

(***************************************************************************)
(* Specification of the ribbon: loads of the second block bring lists of   *)
(* announcements of any length while the timers tick                       *)
(***************************************************************************)
InitRibbon == BuilderIdle /\ WorkerIdle /\ PageIdle

NextRibbon ==
    \/ \E n \in 0..MaxAnnouncements : AnnouncementsLoaded(n) /\ UNCHANGED <<pdVars, swVars>>
    \/ \E t \in 1..MaxTimers : TimerTick(t) /\ UNCHANGED <<pdVars, swVars>>

SpecRibbon == InitRibbon /\ [][NextRibbon]_vars

(***************************************************************************)
(* Properties of the model builder                                         *)
(***************************************************************************)
Returned == pdOut.status = "ok"
Called   == pdOut.status # "pending"

RowName(row)        == NormalizeRow(row).name
RowGroup(row)       == NormalizeRow(row).group
RowCategory(row)    == DefaultCategory(NormalizeRow(row)).category
RowIsAnnouncement(row) == IsAnnouncement(NormalizeRow(row))

\* where source row i sits in an output
MemberPlaces(out, i) ==
    { <<c, g, m>> \in (1..Len(out.categories)) \X (1..MaxRows + 1) \X (1..MaxRows + 1) :
        /\ g <= Len(out.categories[c].groupedItems)
        /\ m <= Len(out.categories[c].groupedItems[g].items)
        /\ out.categories[c].groupedItems[g].items[m].src = i }

IndividualPlaces(out, i) ==
    { <<c, m>> \in (1..Len(out.categories)) \X (1..MaxRows + 1) :
        /\ m <= Len(out.categories[c].individualItems)
        /\ out.categories[c].individualItems[m].src = i }

AnnouncementPlaces(out, i) ==
    { m \in 1..Len(out.announcements) : out.announcements[m].src = i }

Placements(out, i) ==
    Cardinality(MemberPlaces(out, i)) + Cardinality(IndividualPlaces(out, i))
        + Cardinality(AnnouncementPlaces(out, i))

\* C1: processData never raises an error, whatever strings the rows hold.
C1_NeverRaises == pdOut.status # "TypeError"

\* C7: once processData was called, every row with a non-empty name and a
\* category other than "announcement" sits in exactly one place (a group's
\* member list or a category's individualItems), and no row sits in more
\* than one of announcements, group members, individualItems.
C7_ExactlyOnePlace ==
    Called =>
        \A i \in 1..Len(pdData) :
            /\ Placements(pdOut, i) <= 1
            /\ (~Falsy(RowName(pdData[i])) /\ ~RowIsAnnouncement(pdData[i]))
                   => /\ Placements(pdOut, i) = 1
                      /\ AnnouncementPlaces(pdOut, i) = {}

\* the input positions other than i, in order
Without(data, i) == SelectSeq(AllRows(data), LAMBDA j : j # i)

GroupRows(data, cat, grp) ==
    SelectSeq(AllRows(data),
              LAMBDA j : /\ ~Falsy(RowName(data[j]))
                         /\ ~RowIsAnnouncement(data[j])
                         /\ RowCategory(data[j]) = cat
                         /\ RowGroup(data[j]) = grp)

\* C10: the named rows sharing a groupingName and a category all become
\* members of one Group entry, in input order, and the Group's description
\* and image are those of the first such row.
C10_GroupIdentity ==
    Called =>
        \A i \in 1..Len(pdData) :
            LET cat  == RowCategory(pdData[i])
                grp  == RowGroup(pdData[i])
                rows == GroupRows(pdData, cat, grp)
            IN  (~Falsy(grp) /\ ~Falsy(RowName(pdData[i])) /\ ~RowIsAnnouncement(pdData[i]))
                => /\ HasOwn(pdOut.categories, cat)
                   /\ LET groups == pdOut.categories[IndexOf(pdOut.categories, cat)].groupedItems
                      IN /\ HasOwn(groups, grp)
                         /\ LET g == groups[IndexOf(groups, grp)]
                                first == NormalizeRow(pdData[rows[1]])
                            IN /\ [m \in 1..Len(g.items) |-> g.items[m].src] = rows
                               /\ g.description = Get(first, "description")
                               /\ g.image = Get(first, "groupimage")

\* the spellings of a field name that differ in letter case only
HeaderUpper == <<"CATEGORY", "ITEM", "GROUPINGNAME", "DESCRIPTION", "GROUPIMAGE">>
Spellings   == {HeaderCaps, HeaderLower, HeaderUpper}

\* the field name key in the spelling of header h
Respell(key, h) ==
    IF \E c \in 1..Len(h) : toLowerCase(h[c]) = toLowerCase(key)
    THEN h[CHOOSE c \in 1..Len(h) : toLowerCase(h[c]) = toLowerCase(key)]
    ELSE key

\* the rows of data with their field names respelled, values untouched
Recase(data, h) ==
    [i \in 1..Len(data) |->
        [c \in 1..Len(data[i]) |-> <<Respell(data[i][c][1], h), data[i][c][2]>>]]

\* C11: two inputs that differ only in the letter case of their field names
\* have the same outcome: the same categories and the same announcements
\* (or the same error).
C11_FieldNamesCaseInsensitive ==
    Called => \A h \in Spellings : processData(Recase(pdData, h)) = pdOut

\* a sheet with capitalised field names gave a model with a group, and its
\* respelling in upper case is a different input
C11_Witness ==
    /\ Returned
    /\ Len(pdData) > 0
    /\ pdData[1][1][1] = "Category"
    /\ Recase(pdData, HeaderUpper) # pdData
    /\ \E c \in 1..Len(pdOut.categories) : Len(pdOut.categories[c].groupedItems) > 0

\* the rows whose category is "announcement" in any letter case, in input order
AnnouncementRows(data) ==
    SelectSeq(AllRows(data), LAMBDA j : RowIsAnnouncement(data[j]))

\* C12: once processData was called, announcements holds exactly the rows
\* whose category is "announcement" in any letter case, in input order; none
\* of them sits in a category, and no category key is "announcement" in any
\* letter case.
C12_AnnouncementsDiverted ==
    Called =>
        /\ [m \in 1..Len(pdOut.announcements) |-> pdOut.announcements[m].src]
              = AnnouncementRows(pdData)
        /\ \A i \in 1..Len(pdData) :
              RowIsAnnouncement(pdData[i])
                  => MemberPlaces(pdOut, i) = {} /\ IndividualPlaces(pdOut, i) = {}
        /\ \A c \in 1..Len(pdOut.categories) :
              toLowerCase(pdOut.categories[c].key) # "announcement"

\* the same for the calls that return
C12_DivertedWhenReturned ==
    Returned => C12_AnnouncementsDiverted

\* C13: every element of the announcements processData returns has a
\* non-empty name.
C13_AnnouncementsHaveNames ==
    Returned =>
        \A m \in 1..Len(pdOut.announcements) : ~Falsy(pdOut.announcements[m].item.name)

\* the elements of s in order of first occurrence
FirstSeen(s) ==
    LET firsts == SelectSeq([i \in 1..Len(s) |-> i],
                            LAMBDA i : \A j \in 1..(i - 1) : s[j] # s[i])
    IN  [k \in 1..Len(firsts) |-> s[firsts[k]]]

\* the rows that go to the menu (named, not announcements), in input order
MenuRows(data) ==
    SelectSeq(AllRows(data),
              LAMBDA j : ~Falsy(RowName(data[j])) /\ ~RowIsAnnouncement(data[j]))

\* the menu rows of category cat, with a group name / without one
GroupedRowsOf(data, cat) ==
    SelectSeq(MenuRows(data),
              LAMBDA j : RowCategory(data[j]) = cat /\ ~Falsy(RowGroup(data[j])))

IndividualRowsOf(data, cat) ==
    SelectSeq(MenuRows(data),
              LAMBDA j : RowCategory(data[j]) = cat /\ Falsy(RowGroup(data[j])))

\* C14: renderMenu enumerates (Object.keys) the categories in the order in
\* which their names first occur in the input and the groups of a category
\* in the order in which their names first occur, and the individual items of
\* a category are in input order.
C14_FirstSeenOrder ==
    Called =>
        /\ ObjectKeys(pdOut.categories)
              = FirstSeen([k \in 1..Len(MenuRows(pdData)) |->
                              RowCategory(pdData[MenuRows(pdData)[k]])])
        /\ \A c \in 1..Len(pdOut.categories) :
              LET bucket  == pdOut.categories[c]
                  grouped == GroupedRowsOf(pdData, bucket.key)
              IN /\ ObjectKeys(bucket.groupedItems)
                       = FirstSeen([k \in 1..Len(grouped) |-> RowGroup(pdData[grouped[k]])])
                 /\ [m \in 1..Len(bucket.individualItems) |-> bucket.individualItems[m].src]
                       = IndividualRowsOf(pdData, bucket.key)

(***************************************************************************)
(* Properties of the worker                                                *)
(***************************************************************************)
IsCsv(h)   == handlers[h].kind = "csv"
IsImage(h) == handlers[h].kind = "cacheFirst" /\ handlers[h].request.destination = "image"
LookedUp(h) == handlers[h].pc \notin {"start", "passthrough"}

\* C2: a data request that finds an entry under the stripped key is answered
\* with that entry, whatever the state of its network fetch; and once a
\* refresh has been fetched and put, the entry under the key is a response
\* fetched by a completed refresh, and a later lookup reads such a response.
C2_StaleWhileRevalidate ==
    \A h \in Handlers :
        (IsCsv(h) /\ LookedUp(h)) =>
            /\ handlers[h].cached # NoResponse
                  => handlers[h].result = Fulfilled(handlers[h].cached)
            /\ handlers[h].put = "done"
                  => \E g \in WrittenBy(handlers, CACHE_NAME, handlers[h].key) :
                        CacheMatch(cacheStore, CACHE_NAME, handlers[h].key)
                            = handlers[g].response
            /\ handlers[h].afterWrite
                  => \E g \in WrittenBy(handlers, CACHE_NAME, handlers[h].key) :
                        handlers[h].cached = handlers[g].response

\* a request was answered with the stale entry while its fetch was in
\* flight, its refresh was then put, and a second request read the refreshed
\* entry and was answered with it while its own fetch is still in flight
C2_Witness ==
    \E h, g \in Handlers :
        /\ IsCsv(h) /\ IsCsv(g)
        /\ handlers[h].cached = StoredEarlier
        /\ handlers[h].result = Fulfilled(StoredEarlier)
        /\ handlers[h].put = "done"
        /\ handlers[g].afterWrite
        /\ handlers[g].cached = handlers[h].response
        /\ handlers[g].result = Fulfilled(handlers[h].response)
        /\ handlers[g].net = "pending"

\* C3: CSV_UPDATED is posted only after the cache write has completed, and
\* it is posted to every page that is open at that moment.
C3_BroadcastToEveryOpenPage ==
    [][\A h \in Handlers :
          /\ handlers'[h].notify # "none" => handlers'[h].put = "done"
          /\ (handlers[h].notify = "pending" /\ handlers'[h].notify = "sent")
                => handlers'[h].recipients = { p \in Pages : clients[p] # "closed" }]_vars

\* C4: a data request with no cached response whose fetch fails ends in a
\* rejection, never in a normal completion without a Response.
C4_MissAndFailureRejects ==
    \A h \in Handlers :
        (IsCsv(h) /\ handlers[h].net = "reject" /\ handlers[h].cached = NoResponse)
            => handlers[h].result.state = "rejected"

\* the URL without its cacheBust parameters
WithoutCacheBust(url) ==
    [url EXCEPT !.query = SelectSeq(url.query, LAMBDA param : ~IsCacheBust(param))]

\* C5: two data requests whose URLs differ only in the presence, value or
\* position of the cacheBust parameter get the same cache key.
C5_OneKeyPerExport ==
    \A h, g \in Handlers :
        (/\ IsCsv(h) /\ IsCsv(g)
         /\ WithoutCacheBust(handlers[h].request.url) = WithoutCacheBust(handlers[g].request.url))
            => handlers[h].key = handlers[g].key

\* every fetch so far answered 200 and no cache write failed
NetworkHealthy ==
    \A h \in Handlers :
        handlers[h].net \notin {"error", "reject"} /\ handlers[h].put # "failed"

\* C6 as stated: with a network that answers 200, an image request that
\* arrives after a response for the same URL was returned is served from the
\* cache without a network fetch.
C6_RepeatAfterReturnHitsCache ==
    \A h \in Handlers :
        (IsImage(h) /\ LookedUp(h) /\ handlers[h].afterReturn /\ NetworkHealthy)
            => handlers[h].net = "none" /\ handlers[h].cached # NoResponse

\* C6 amended: an image request whose cache lookup happens after the cache
\* write of an earlier request for the same URL has completed is served
\* from the cache (the 200 response fetched earlier) without a network fetch.
C6_RepeatAfterWriteHitsCache ==
    \A h \in Handlers :
        (IsImage(h) /\ LookedUp(h) /\ handlers[h].afterWrite)
            => /\ handlers[h].net = "none"
               /\ handlers[h].cached.status = 200
               /\ handlers[h].result = Fulfilled(handlers[h].cached)
               /\ \E g \in WrittenBy(handlers, handlers[h].cacheName, handlers[h].key) :
                     handlers[h].cached = handlers[g].response

\* the first image request went to the network once and its response was
\* written; the repeat request was served from the cache
C6_Witness ==
    \E g, h \in Handlers :
        /\ IsImage(g) /\ IsImage(h) /\ g < h
        /\ handlers[g].cached = NoResponse /\ handlers[g].net = "ok" /\ handlers[g].put = "done"
        /\ handlers[h].afterWrite
        /\ handlers[h].net = "none"
        /\ handlers[h].result = Fulfilled(handlers[g].response)

\* C15: every GET request for an image, whatever its origin, is answered by
\* the cache-first handler on the dynamic cache (CACHE_NAME); a same-origin
\* GET request that is not an image is answered on the static cache; and no
\* response to an image request is written to the static cache.
C15_ImagesInDynamicCache ==
    \A h \in Handlers :
        LET request == handlers[h].request IN
        /\ (request.method = "GET" /\ request.destination = "image")
              => /\ handlers[h].kind = "cacheFirst"
                 /\ handlers[h].cacheName = CACHE_NAME
                 /\ handlers[h].put = "done"
                       => CacheMatch(cacheStore, STATIC_CACHE_NAME, handlers[h].key) = NoResponse
        /\ (/\ request.method = "GET"
            /\ request.destination # "image"
            /\ request.url.origin = WorkerOrigin)
              => /\ handlers[h].kind = "cacheFirst"
                 /\ handlers[h].cacheName = STATIC_CACHE_NAME

\* a request for the published spreadsheet export
IsDataEndpoint(request) ==
    request.url.origin = SheetOrigin /\ request.url.path = SheetPath

\* the cache entries some handler's completed put can account for
Untouched(name, key) ==
    WrittenBy(handlers, name, key) = {} => CacheMatch(cacheStore, name, key) = NoResponse

\* C16: the worker answers a request (respondWith) exactly when it is a GET
\* request for the data endpoint, for an image, or to the worker's own
\* origin; for any other request it gives no response, reads no cache,
\* fetches nothing and writes no cache.
C16_AnswersExactlyItsClasses ==
    /\ \A h \in Handlers :
          LET request == handlers[h].request IN
          /\ handlers[h].kind # "none"
                <=> /\ request.method = "GET"
                    /\ \/ IsDataEndpoint(request)
                       \/ request.destination = "image"
                       \/ request.url.origin = WorkerOrigin
          /\ handlers[h].kind = "none"
                => /\ handlers[h].pc = "passthrough"
                   /\ handlers[h].result = Pending0
                   /\ handlers[h].cached = NoResponse
                   /\ handlers[h].net = "none"
                   /\ handlers[h].put = "none"
    /\ \A name \in CacheNames, key \in AllKeys : Untouched(name, key)

\* a POST and a cross-origin script were left to the browser while the
\* export was answered from the network
C16_Witness ==
    \E h, g \in Handlers :
        /\ handlers[h].request \in {PostRequest, ScriptRequest}
        /\ handlers[h].kind = "none"
        /\ IsCsv(g)
        /\ handlers[g].result.state = "fulfilled"
        /\ handlers[g].put = "done"

\* the URLs u and v are equal up to the value of their cacheBust parameter
SameButCacheBustValue(u, v) ==
    /\ u.origin = v.origin /\ u.path = v.path
    /\ Len(u.query) = Len(v.query)
    /\ \A i \in 1..Len(u.query) :
          u.query[i] = v.query[i] \/ (IsCacheBust(u.query[i]) /\ IsCacheBust(v.query[i]))

\* the cache lookup of fetch event h happens in this step
LooksUpNow(h) ==
    /\ h \in Handlers
    /\ handlers[h].pc = "start"
    /\ handlers'[h].pc # "start"

\* the lookup of h finds an entry once a CACHE_CSV for a URL related to the
\* request's by Same has completed its put
HitsAfterPrefetch(Same(_, _)) ==
    \A h \in Handlers, m \in Prefetches :
        (/\ LooksUpNow(h)
         /\ prefetches[m].put = "done"
         /\ Same(prefetches[m].url, handlers[h].request.url))
            => /\ handlers[h].key = prefetches[m].key
               /\ handlers'[h].cached # NoResponse
               /\ handlers'[h].result = Fulfilled(handlers'[h].cached)

\* C20: a CACHE_CSV message for the URL u stores under the key that
\* handleCSVRequest computes for a request of u, so once the message's put
\* has completed, the lookup of a later fetch event for u, with any value of
\* cacheBust, finds an entry and the event is answered from the cache.
C20_PrefetchThenHit ==
    [][HitsAfterPrefetch(SameButCacheBustValue)]_vars

\* the same for the URLs whose cacheBust parameter is not the first one
C20_TrailingPrefetchThenHit ==
    [][HitsAfterPrefetch(LAMBDA u, v : SameButCacheBustValue(u, v)
                                          /\ ~IsCacheBust(u.query[1]))]_vars

\* a handler of cacheFirstStrategy that missed the cache and whose fetch
\* was rejected, and that has returned
MissedAndFailed(h) ==
    /\ handlers[h].kind = "cacheFirst"
    /\ LookedUp(h)
    /\ handlers[h].cached = NoResponse
    /\ handlers[h].net = "reject"
    /\ handlers[h].pc = "done"

IsNavigation(h) == handlers[h].request.mode = "navigate"

\* C21: a same-origin navigation request that misses the cache and whose
\* fetch fails is answered with the /index.html entry of the static cache
\* if there is one, and with the synthetic 503 response only if there is none.
C21_NavigationFallback ==
    \A h \in Handlers :
        (MissedAndFailed(h) /\ IsNavigation(h) /\ handlers[h].request.url.origin = WorkerOrigin)
            => LET cachedIndex == CacheMatch(cacheStore, STATIC_CACHE_NAME, IndexUrl) IN
               /\ cachedIndex # NoResponse => handlers[h].result = Fulfilled(cachedIndex)
               /\ cachedIndex = NoResponse => handlers[h].result = Fulfilled(Offline503)
               /\ handlers[h].result.state = "fulfilled"

\* an offline navigation was answered with the cached /index.html
C21_Witness ==
    \E h \in Handlers :
        /\ MissedAndFailed(h) /\ IsNavigation(h)
        /\ handlers[h].result = Fulfilled(StoredEarlier)
        /\ CacheMatch(cacheStore, STATIC_CACHE_NAME, IndexUrl) = StoredEarlier

\* C22 as stated: a static asset or image request that misses the cache
\* and whose fetch fails ends in a rejection (a failed load); only
\* navigations get the synthetic 503.
C22_NonNavigationFailurePropagates ==
    \A h \in Handlers :
        (MissedAndFailed(h) /\ ~IsNavigation(h))
            => /\ handlers[h].result.state = "rejected"
               /\ handlers[h].result # Fulfilled(Offline503)

\* C22 amended: a static asset or image request that misses the cache and
\* whose fetch fails is answered with the synthetic 503 response, as a
\* navigation without a cached /index.html is; the handler never rejects.
C22_NonNavigationFailureGets503 ==
    \A h \in Handlers :
        /\ (MissedAndFailed(h) /\ ~IsNavigation(h))
              => handlers[h].result = Fulfilled(Offline503)
        /\ handlers[h].kind = "cacheFirst" => handlers[h].result.state # "rejected"

\* an image and a stylesheet were both answered 503 after their fetches failed
C22_Witness ==
    \E h, g \in Handlers :
        /\ MissedAndFailed(h) /\ handlers[h].request = ImageRequest
        /\ MissedAndFailed(g) /\ handlers[g].request = StyleRequest
        /\ handlers[h].result = Fulfilled(Offline503)
        /\ handlers[g].result = Fulfilled(Offline503)

\* the cache.put of handler h fails in this step
PutFailsNow(h) ==
    /\ h \in Handlers
    /\ handlers[h].put = "pending"
    /\ handlers'[h].put = "failed"

\* C23 as stated: when a cache.put fails, the handler has returned or goes
\* on to return the network response, it does not fail, and the cache is
\* left as it was.
C23_PutFailureReturnsNetworkResponse ==
    [][\A h \in Handlers :
          PutFailsNow(h) => /\ handlers'[h].result = Fulfilled(handlers[h].response)
                            /\ cacheStore' = cacheStore]_vars

\* C23 amended: when a cache.put fails, the response given to the caller is
\* the one it gets when the write succeeds (the network response, or for a
\* data request that found a cached entry that entry), the handler does not
\* fail, and the cache is left as it was.
C23_PutFailureIsNonFatal ==
    [][\A h \in Handlers :
          PutFailsNow(h)
              => /\ handlers'[h].result =
                       Fulfilled(IF IsCsv(h) /\ handlers[h].cached # NoResponse
                                 THEN handlers[h].cached ELSE handlers[h].response)
                 /\ handlers'[h].result = handlers[h].result
                 /\ cacheStore' = cacheStore]_vars

\* the write of a refreshed export failed: the caller has the network
\* response and the cache still holds what an earlier request had put
C23_Witness ==
    \E g, h \in Handlers :
        /\ IsCsv(g) /\ IsCsv(h) /\ g # h
        /\ handlers[g].put = "done"
        /\ handlers[h].put = "failed"
        /\ handlers[h].cached = NoResponse
        /\ handlers[h].result = Fulfilled(handlers[h].response)
        /\ CacheMatch(cacheStore, CACHE_NAME, handlers[h].key) = handlers[g].response

\* the background fetch of handler h rejected or gave a status other than 200
RevalidationFailed(hs, h) == hs[h].kind = "csv" /\ hs[h].net \in {"error", "reject"}

\* C26: when the background fetch of handleCSVRequest rejects or resolves
\* with a status other than 200, the step in which it settles leaves the
\* cache as it was, the handler starts no cache write and no broadcast then
\* or later, the response is never found under the stripped key, and with a
\* warm cache the caller still has the cached response.
C26_FailedRevalidationUntouched ==
    [][\A h \in Handlers :
          RevalidationFailed(handlers', h) =>
              /\ ~RevalidationFailed(handlers, h) => cacheStore' = cacheStore
              /\ handlers'[h].put = "none"
              /\ handlers'[h].notify = "none" /\ handlers'[h].recipients = {}
              /\ handlers'[h].response # NoResponse =>
                    CacheMatch(cacheStore', handlers'[h].cacheName, handlers'[h].key)
                        # handlers'[h].response
              /\ handlers'[h].cached # NoResponse =>
                    handlers'[h].result = Fulfilled(handlers'[h].cached)]_vars

\* a revalidation that got a 500 while pages were open and the cache was warm
C26_Witness ==
    \E h \in Handlers :
        /\ RevalidationFailed(handlers, h) /\ handlers[h].response # NoResponse
        /\ handlers[h].cached # NoResponse
        /\ \E p \in Pages : clients[p] = "controlled"

\* C27: every response stored in the dynamic-content cache (CACHE_NAME) has
\* status 200, whatever fetches were intercepted and whatever CACHE_CSV
\* messages were handled.
C27_DynamicCacheHoldsOnly200 ==
    \A key \in AllKeys :
        LET stored == CacheMatch(cacheStore, CACHE_NAME, key) IN
        stored # NoResponse => stored.status = 200

\* what holds of the code: the fetch handlers write only responses of
\* status 200
C27_HandlersStoreOnly200 ==
    \A h \in Handlers : handlers[h].put # "none" => handlers[h].response.status = 200

\* the handlers of requests for the export whose fetch gave a 200 and whose
\* cache write under key has finished
Refreshed(key) ==
    { h \in Handlers : /\ handlers[h].kind = "csv" /\ handlers[h].key = key
                       /\ handlers[h].net = "ok" /\ handlers[h].put = "done" }

\* the handlers of requests for the export that may still write under key
Refreshing(key) ==
    { h \in Handlers : /\ handlers[h].kind = "csv" /\ handlers[h].key = key
                       /\ \/ handlers[h].pc \in {"start", "fetching"}
                          \/ handlers[h].put = "pending" }

Latest(hs) == CHOOSE h \in hs : \A g \in hs : g <= h

\* C28: once the cache writes of all requests for the export have finished,
\* the entry under the stripped key holds the response to the later-issued
\* request: an earlier-issued refresh never overwrites a newer one.
C28_LaterIssuedWins ==
    \A key \in AllKeys :
        (Refreshing(key) = {} /\ Refreshed(key) # {}) =>
            CacheMatch(cacheStore, CACHE_NAME, key) = handlers[Latest(Refreshed(key))].response

\* what holds of the code: every cache write that finishes replaces the entry
\* under the stripped key with its own response, so the entry holds the
\* response of the write that finished last, whichever request was issued
\* first
C28_LastFinishedWins ==
    [][\A h \in Handlers :
          (handlers[h].kind = "csv" /\ handlers[h].put = "pending" /\ handlers'[h].put = "done")
          => CacheMatch(cacheStore', CACHE_NAME, handlers[h].key) = handlers[h].response]_vars

\* handler h exists and its own fetch has not hung
NotHung(h) == h \in Handlers /\ handlers[h].kind # "none" /\ handlers[h].net # "hung"

\* handler h has run to completion
Completed(h) == h \in Handlers /\ handlers[h].pc = "done"

\* C24: whatever fetches hang, every handler whose own fetch does not hang
\* runs to completion, and a data request that finds a cached entry is
\* answered with it even if its own fetch hangs; a handler whose fetch
\* hangs on the cache-miss path is the only one left waiting.
C24_HungFetchIsolated ==
    /\ \A h \in 1..(MaxRequests + 1) :
          [](NotHung(h) => <>(Completed(h) \/ ~NotHung(h)))
    /\ [](\A h \in Handlers :
             (IsCsv(h) /\ LookedUp(h) /\ handlers[h].cached # NoResponse)
                 => handlers[h].result = Fulfilled(handlers[h].cached))
    /\ [](\A h \in Handlers :
             handlers[h].result.state = "pending" /\ handlers[h].pc = "done"
                 => handlers[h].kind = "none")

\* the fetch of the first request hangs on the cache-miss path and is left
\* waiting, while a later request has gone to the network and completed
C24_Witness ==
    \E g, h \in Handlers :
        /\ g < h
        /\ handlers[g].net = "hung"
        /\ handlers[g].cached = NoResponse
        /\ handlers[g].result.state = "pending"
        /\ handlers[h].net = "ok"
        /\ Completed(h)
        /\ handlers[h].result = Fulfilled(handlers[h].response)

(***************************************************************************)
(* Properties of the worker's life cycle                                   *)
(***************************************************************************)
\* C17: when the work of the activate listener has completed, the caches
\* that exist are exactly those that existed when activation began and are
\* named CACHE_NAME or STATIC_CACHE_NAME, and their entries are unchanged.
C17_ActivationEvictsStaleOnly ==
    worker.state = "activated" =>
        /\ cacheNames = worker.before.names \cap CacheNames
        /\ \A name \in CacheNames : cacheStore[name] = worker.before.store[name]

\* activation completed over stale caches and a current cache with entries
C17_Witness ==
    /\ worker.state = "activated"
    /\ worker.before.names \cap StaleCacheNames # {}
    /\ STATIC_CACHE_NAME \in cacheNames
    /\ CacheMatch(cacheStore, STATIC_CACHE_NAME, IndexUrl) # NoResponse

\* C18: no page is controlled by the new worker while a cache of an earlier
\* generation exists.
C18_ControlOnlyAfterEviction ==
    (\E p \in Pages : clients[p] = "controlled") => cacheNames \subseteq CacheNames

\* C19: an install whose precaching failed still succeeds, and the worker
\* goes on to activation without waiting for the pages of the previous
\* generation.
C19_FailedInstallStillActivates ==
    (worker.install \in {"addAllFailed", "openFailed"})
        ~> (worker.state \in {"activating", "activated"})

\* the precaching failed, and the worker is active and controls a page
C19_Witness ==
    /\ worker.install \in {"addAllFailed", "openFailed"}
    /\ worker.state = "activated"
    /\ worker.skipWaiting
    /\ \E p \in Pages : clients[p] = "controlled"

(***************************************************************************)
(* Properties of the page                                                  *)
(***************************************************************************)
AllLoadsDone == pgStarted /\ \A l \in Loads : pgLoads[l].state = "done"

\* a load of the second block, started after n messages had been
\* dispatched, has completed and replaced what the container showed
RebuiltAfter(n) ==
    \E l \in Loads :
        /\ pgLoads[l].notified >= n
        /\ pgLoads[l].state = "done"

\* C25: whenever a CSV_UPDATED message has been dispatched at the page, the
\* page rebuilds its model from the rows of the export: once no load is
\* pending any more, a load that was started after the latest message has
\* completed.
C25_RebuildOnNotification ==
    (pgNotified > 0 /\ AllLoadsDone) => RebuiltAfter(pgNotified)

\* the other half of C25 holds: a load started by the refresh button, the
\* retry button or the R key replaces what the container showed
C25_RebuildOnRefresh ==
    [][\A l \in Loads :
          (l > 2 /\ pgLoads[l].state = "pending" /\ pgLoads'[l].state = "done")
          => /\ pgMenu'.script = 2
             /\ pgMenu'.view \in {"menu", "error"}
             /\ pgMenu'.view = "menu" => pgMenu'.model = processData(pgSheet).categories]_vars

VisibleItems(ribbon) == { i \in 1..Len(ribbon.items) : ribbon.items[i] }

\* C29: whenever the ribbon contains announcement elements exactly one of
\* them is marked is-visible, and no timer tick has indexed an element that
\* does not exist.
C29_OneVisibleAnnouncement ==
    /\ Len(pgRibbon.items) > 0 => Cardinality(VisibleItems(pgRibbon)) = 1
    /\ ~pgRibbon.threw

\* what holds of the code: a tick never hides the last visible element
C29_SomeVisibleAnnouncement ==
    Len(pgRibbon.items) > 0 => VisibleItems(pgRibbon) # {}

\* C30: when loadMenuData was triggered again and all loads have completed,
\* the menu container shows the outcome (rendered model or error state) of
\* the most recently triggered load.
C30_LatestLoadShown ==
    (AllLoadsDone /\ Reloads > 0) =>
        LET latest == pgLoads[Len(pgLoads)] IN
        /\ pgMenu.view = latest.outcome
        /\ pgMenu.script = latest.script

\* the same statement for a container last written by the second block: it
\* fails too, so the failure does not come from the first block's load
C30_LatestLoadShownBySecondBlock ==
    (AllLoadsDone /\ Reloads > 0 /\ pgMenu.script = 2) =>
        pgMenu.view = pgLoads[Len(pgLoads)].outcome

\* what holds of the code: the container shows the outcome of some load
C30_SomeLoadShown ==
    AllLoadsDone =>
        \E l \in Loads : pgMenu.view = pgLoads[l].outcome /\ pgMenu.script = pgLoads[l].script

\* the source rows shown under the category headline cat
RenderedUnder(menu, cat) ==
    IF menu.view # "menu" \/ ~HasOwn(menu.model, cat) THEN {}
    ELSE LET bucket == menu.model[IndexOf(menu.model, cat)] IN
         IF menu.script = 1
         THEN { bucket.items[m].src : m \in 1..Len(bucket.items) }
         ELSE { bucket.individualItems[m].src : m \in 1..Len(bucket.individualItems) }
              \cup UNION { { bucket.groupedItems[g].items[m].src :
                                m \in 1..Len(bucket.groupedItems[g].items) } :
                           g \in 1..Len(bucket.groupedItems) }

\* C9: in the menu the page shows once its loads have completed, every row
\* with a blank or missing category and a non-empty name is under "Menu".
C9_BlankCategoryShownUnderMenu ==
    (AllLoadsDone /\ pgMenu.view = "menu") =>
        \A i \in 1..Len(pgSheet) :
            (Falsy(Get(NormalizeRow(pgSheet[i]), "category")) /\ ~Falsy(RowName(pgSheet[i])))
                => i \in RenderedUnder(pgMenu, "Menu")

=============================================================================
